---- MODULE Spec2Model ----
(***************************************************************************)
(* Model of the property service of src/main.py: the CRUD handlers over    *)
(* the `properties` table, the spatial radius query                        *)
(* (get_nearby_properties), and the nearby-search pipeline                  *)
(* (nearby -> geocode_location) with its Redis geocode cache and the       *)
(* external geocoding provider.                                            *)
(*                                                                         *)
(* Encodings.  A coordinate (a Python float / a double precision column)   *)
(* is an integer: metres of arc from the origin, latitude along the prime  *)
(* meridian and longitude along the equator.  A distance is an integer     *)
(* number of metres.  A text (a location query) is a sequence of           *)
(* one-character strings, so that str.lower() is computed per character.   *)
(* Non-finite floats (nan, inf) are outside the model.                     *)
(***************************************************************************)
EXTENDS Integers, Sequences, FiniteSets, TLC

VARIABLES
    properties,  \* the `properties` table: id -> row
    nextId,      \* the table's id sequence (next value of the serial key)
    call,        \* the CRUD request last handled: operation and arguments
    resp,        \* the HTTP response to it: status code and body
    cache,       \* the Redis key space: key -> [value, expireAt]
    now,         \* wall-clock time in seconds
    provider,    \* the geocoding provider: raw query text -> response body
    reqs,        \* the nearby requests in flight or finished
    qin,         \* inputs of a direct get_nearby_properties call
    qout         \* its return value

vars == <<properties, nextId, call, resp, cache, now, provider, reqs, qin, qout>>

repoVars  == <<properties, nextId, call, resp>>
cacheVars == <<cache, now, provider, reqs>>
queryVars == <<qin, qout>>

----------------------------------------------------------------------------
(* Bounds of the model *)

MaxId == 2          \* ids the sequence hands out in a run of the repository
MaxRows == 2        \* rows in a store handed to get_nearby_properties directly
MaxRequests == 2    \* nearby requests in a run of the pipeline
MaxTicks == 2       \* half-days the clock advances in a run of the pipeline

(* Program constants *)

TTL == 86400            \* ex=86400 of redis.set
DefaultRadiusKm == 50   \* radius_km: float = 50.0

----------------------------------------------------------------------------
(* Values *)

Null == "None"

Abs(n) == IF n < 0 THEN -n ELSE n

Names == {"Home", "Shop"}
Addresses == {"1 Main St"}
Lats == {0, 600}
Lons == {0, 800, 1004, 50001}

----------------------------------------------------------------------------
(* Point geometry: WKTElement(f'POINT({lon} {lat})', srid=4326) as the     *)
(* store parses it.  The WKT text is the token sequence the f-string       *)
(* builds; the store reads x from the first number and y from the second.  *)

WKTElement(longitude, latitude) ==
    [wkt |-> <<"POINT(", longitude, " ", latitude, ")">>, srid |-> 4326]

GeomFromEWKT(e) ==
    [x |-> e.wkt[2], y |-> e.wkt[4], srid |-> e.srid]

(* ST_MakePoint(lon, lat): x = lon, y = lat *)
ST_MakePoint(lon, lat) == [x |-> lon, y |-> lat]

----------------------------------------------------------------------------
(* The Property Repository: the CRUD handlers *)

(* class PropertyCreate: the validated request body *)
PropertyCreate == [name : Names, address : Addresses, latitude : Lats, longitude : Lons]

(* class PropertyOut: the response model drops `location` *)
PropertyOut(row) ==
    [id |-> row.id, name |-> row.name, address |-> row.address,
     latitude |-> row.latitude, longitude |-> row.longitude]

(* db.query(Property).filter(Property.id == property_id).first() *)
(* The result is <<>> for None (falsy) and <<row>> for a row (truthy). *)
QueryFirst(db, property_id) ==
    IF property_id \in DOMAIN db THEN <<db[property_id]>> ELSE <<>>

(* Property(name=..., ..., location=point) with the id the commit assigns *)
NewRow(id, prop) ==
    [id |-> id, name |-> prop.name, address |-> prop.address,
     latitude |-> prop.latitude, longitude |-> prop.longitude,
     location |-> GeomFromEWKT(WKTElement(prop.longitude, prop.latitude))]

(* The assignments of update_property *)
UpdatedRowKeepLocation(row, prop_in) ==
    [row EXCEPT !.name = prop_in.name, !.address = prop_in.address,
                !.latitude = prop_in.latitude, !.longitude = prop_in.longitude]

UpdatedRow(row, prop_in) ==
    [row EXCEPT !.name = prop_in.name, !.address = prop_in.address,
                !.latitude = prop_in.latitude, !.longitude = prop_in.longitude,
                !.location = GeomFromEWKT(WKTElement(prop_in.longitude, prop_in.latitude))]

Put(db, row) == [i \in DOMAIN db \cup {row.id} |-> IF i = row.id THEN row ELSE db[i]]

Remove(db, id) == [i \in DOMAIN db \ {id} |-> db[i]]

HTTPException(status_code, detail) == [status |-> status_code, body |-> [detail |-> detail]]

(* What each handler answers and the table it leaves: [resp, db] *)
GetOutcome(db, property_id) ==
    LET prop == QueryFirst(db, property_id) IN
    IF prop = <<>>
    THEN [resp |-> HTTPException(404, "Property not found"), db |-> db]
    ELSE [resp |-> [status |-> 200, body |-> PropertyOut(prop[1])], db |-> db]

UpdateOutcome(db, property_id, prop_in) ==
    LET db_prop == QueryFirst(db, property_id) IN
    IF db_prop = <<>>
    THEN [resp |-> HTTPException(404, "Property not found"), db |-> db]
    ELSE LET row == UpdatedRow(db_prop[1], prop_in) IN
         [resp |-> [status |-> 200, body |-> PropertyOut(row)], db |-> Put(db, row)]

DeleteOutcomeUnchecked(db, property_id) ==
    [resp |-> [status |-> 204, body |-> Null], db |-> Remove(db, property_id)]

DeleteOutcome(db, property_id) ==
    LET db_prop == QueryFirst(db, property_id) IN
    IF db_prop = <<>>
    THEN [resp |-> HTTPException(404, "Property not found"), db |-> db]
    ELSE [resp |-> [status |-> 204, body |-> Null], db |-> Remove(db, property_id)]

NoCall == [op |-> "none", id |-> 0, body |-> Null]
NoResp == [status |-> 0, body |-> Null]

(* POST /properties *)
create_property(prop) ==
    /\ nextId <= MaxId
    /\ LET db_prop == NewRow(nextId, prop) IN
       /\ properties' = Put(properties, db_prop)
       /\ resp' = [status |-> 201, body |-> PropertyOut(db_prop)]
    /\ nextId' = nextId + 1
    /\ call' = [op |-> "create", id |-> 0, body |-> prop]
    /\ UNCHANGED <<cacheVars, queryVars>>

(* GET /properties *)
list_properties ==
    /\ resp' = [status |-> 200, body |-> {PropertyOut(properties[i]) : i \in DOMAIN properties}]
    /\ call' = [op |-> "list", id |-> 0, body |-> Null]
    /\ UNCHANGED <<properties, nextId, cacheVars, queryVars>>

(* GET /properties/{property_id} *)
get_property(property_id) ==
    /\ LET o == GetOutcome(properties, property_id) IN
       /\ resp' = o.resp
       /\ properties' = o.db
    /\ call' = [op |-> "get", id |-> property_id, body |-> Null]
    /\ UNCHANGED <<nextId, cacheVars, queryVars>>

(* PUT /properties/{property_id} *)
update_property(property_id, prop_in) ==
    /\ LET o == UpdateOutcome(properties, property_id, prop_in) IN
       /\ resp' = o.resp
       /\ properties' = o.db
    /\ call' = [op |-> "update", id |-> property_id, body |-> prop_in]
    /\ UNCHANGED <<nextId, cacheVars, queryVars>>

(* DELETE /properties/{property_id} *)
delete_property(property_id) ==
    /\ LET o == DeleteOutcome(properties, property_id) IN
       /\ resp' = o.resp
       /\ properties' = o.db
    /\ call' = [op |-> "delete", id |-> property_id, body |-> Null]
    /\ UNCHANGED <<nextId, cacheVars, queryVars>>

Ids == 1..MaxId

EmptyDb == <<>>

----------------------------------------------------------------------------
(* The spatial query *)

(* func.ST_DistanceSphere(a, b): the store's great-circle distance in      *)
(* metres.  Between two points of the same latitude or the same longitude  *)
(* it is the arc between them; otherwise the model takes the integer part  *)
(* of the hypotenuse, which is what the sphere gives to within a metre at  *)
(* the separations of the grid.                                            *)
RECURSIVE Hypotenuse(_, _, _, _)
(* The largest r in from..to with r*r <= hi*hi + lo*lo, by bisection; the  *)
(* test is written (r - hi)(r + hi) <= lo*lo to stay within 32 bits.       *)
Hypotenuse(hi, lo, from, to) ==
    IF from = to THEN from
    ELSE LET mid == (from + to + 1) \div 2 IN
         IF (mid - hi) * (mid + hi) <= lo * lo
         THEN Hypotenuse(hi, lo, mid, to)
         ELSE Hypotenuse(hi, lo, from, mid - 1)

ST_DistanceSphere(a, b) ==
    LET dx == Abs(a.x - b.x)
        dy == Abs(a.y - b.y)
        hi == IF dx >= dy THEN dx ELSE dy
        lo == IF dx >= dy THEN dy ELSE dx
    IN  Hypotenuse(hi, lo, hi, hi + lo)

(* .filter(dist_expr <= radius_km * 1000) *)
InRadiusStrict(dist, radius_km) == dist < radius_km * 1000

InRadius(dist, radius_km) == dist <= radius_km * 1000

(* round(distance, 2) of distance = metres / 1000, in hundredths of a km:  *)
(* to the nearest hundredth, an exact tie to the even one.                 *)
Round2(metres) ==
    LET q == metres \div 10
        r == metres % 10
    IN  IF r < 5 THEN q
        ELSE IF r > 5 THEN q + 1
        ELSE IF q % 2 = 0 THEN q ELSE q + 1

(* .order_by(dist_expr): whether the rows of `seq` (ids) come in an order  *)
(* the store may return them in; rows at equal distance in any order.      *)
OrderedByRounded(db, point, seq) ==
    \A i, j \in DOMAIN seq :
        i < j => Round2(ST_DistanceSphere(db[seq[i]].location, point))
                   <= Round2(ST_DistanceSphere(db[seq[j]].location, point))

OrderedByDistance(db, point, seq) ==
    \A i, j \in DOMAIN seq :
        i < j => ST_DistanceSphere(db[seq[i]].location, point)
                   <= ST_DistanceSphere(db[seq[j]].location, point)

(* The sequences that list every element of S once *)
Listings(S) ==
    {f \in [1..Cardinality(S) -> S] : \A i, j \in 1..Cardinality(S) : i # j => f[i] # f[j]}

(* One element of the list get_nearby_properties returns *)
NearbyRow(row, distance_m) ==
    [id |-> row.id, name |-> row.name, address |-> row.address,
     latitude |-> row.latitude, longitude |-> row.longitude,
     distance_km |-> Round2(distance_m)]

(* get_nearby_properties(db, lat, lon, radius_km): the lists it may        *)
(* return (one per order the store may give to rows at equal distance)     *)
get_nearby_properties(db, lat, lon, radius_km) ==
    LET point == ST_MakePoint(lon, lat)
        hits == {i \in DOMAIN db :
                    InRadius(ST_DistanceSphere(db[i].location, point), radius_km)}
    IN  {[k \in DOMAIN seq |->
            NearbyRow(db[seq[k]], ST_DistanceSphere(db[seq[k]].location, point))] :
         seq \in {s \in Listings(hits) : OrderedByDistance(db, point, s)}}

----------------------------------------------------------------------------
(* Texts, cache keys and the cached JSON value *)

Queries == {<<"P", "a">>, <<"p", "a">>, <<"r">>}

LowerChar(c) ==
    CASE c = "P" -> "p"
      [] c = "A" -> "a"
      [] c = "R" -> "r"
      [] OTHER -> c

(* query.lower() *)
Lower(query) == [i \in DOMAIN query |-> LowerChar(query[i])]

(* key = f'geocode:{query.lower()}' *)
KeyWithoutQuery(query) == <<"geocode:">>

Key(query) == <<"geocode:">> \o Lower(query)

(* json.dumps([lat, lon]) and json.loads(cached) *)
JsonDumps(pair) == <<"[", pair[1], ", ", pair[2], "]">>

JsonLoads(txt) == <<txt[2], txt[4]>>

(* float(s) of the provider's coordinate texts; anything else raises *)
IsNumber(s) == s \in {"0", "600", "800"}

Float(s) ==
    CASE s = "0" -> 0
      [] s = "600" -> 600
      [] s = "800" -> 800

----------------------------------------------------------------------------
(* The geocoding provider: what resp.json() gives for a query text *)

Place1 == [lat |-> "0", lon |-> "0"]
Place2 == [lat |-> "0", lon |-> "800"]
Place3 == [lat |-> "600", lon |-> "0"]
Broken == [lat |-> "", lon |-> ""]

EmptyList == [kind |-> "list", items |-> <<>>]
ErrorObject == [kind |-> "object", items |-> <<>>]
List(items) == [kind |-> "list", items |-> items]

(* The providers of the model: one response body per query text.  The      *)
(* provider is sent the text as typed, so it may answer "Pa" and "pa"      *)
(* differently.                                                            *)
Providers ==
    {f \in [Queries -> {EmptyList, ErrorObject, List(<<Place1>>), List(<<Place2, Place1>>),
                        List(<<Place3>>), List(<<Broken>>)}] :
        /\ f[<<"P", "a">>] \in {EmptyList, List(<<Place1>>), List(<<Place2, Place1>>)}
        /\ f[<<"p", "a">>] \in {List(<<Place1>>), List(<<Place2, Place1>>)}
        /\ f[<<"r">>] \in {EmptyList, ErrorObject, List(<<Place3>>), List(<<Broken>>)}}

(* the negation of: not results or not isinstance(results, list) *)
Found(results) == results.kind = "list" /\ results.items # <<>>

(* first = results[0] *)
LastResult(results) == results.items[Len(results.items)]

FirstResult(results) == results.items[1]

----------------------------------------------------------------------------
(* The nearby requests *)

Requests == 1..MaxRequests

Idle ==
    [pc |-> "idle", query |-> <<>>, coords |-> <<>>, status |-> 0, detail |-> "",
     body |-> <<>>, calls |-> 0, wrote |-> FALSE, queried |-> FALSE,
     cacheFailed |-> FALSE, seen |-> 0]

(* An exception no handler catches: the framework answers 500 *)
Unhandled(req, what) ==
    [req EXCEPT !.pc = "done", !.status = 500, !.detail = what]

(* raise HTTPException(status_code=400, detail='Location not found') *)
LocationNotFoundAs404(req) ==
    [req EXCEPT !.pc = "done", !.status = 404, !.detail = "Location not found"]

LocationNotFound(req) ==
    [req EXCEPT !.pc = "done", !.status = 400, !.detail = "Location not found"]

(* client.get raises (timeout, connection error): nothing catches it *)
NetworkErrorRetried(req) == [req EXCEPT !.calls = @ + 1]

NetworkError(req) == Unhandled([req EXCEPT !.calls = @ + 1], "Upstream error")

(* if cached: *)
CacheHitNever(c, key) == FALSE

CacheHit(c, key) == key \in DOMAIN c /\ now < c[key].expireAt

(* props = get_nearby_properties(db, lat, lon); return {'properties': props} *)
Respond(req, coords, props) ==
    [req EXCEPT !.pc = "done", !.status = 200, !.coords = coords,
                !.body = props, !.queried = TRUE]

(* The sample table the pipeline runs against *)
SampleStore ==
    Put(Put(Put(EmptyDb,
        NewRow(1, [name |-> "Home", address |-> "1 Main St", latitude |-> 0, longitude |-> 1004])),
        NewRow(2, [name |-> "Shop", address |-> "1 Main St", latitude |-> 600, longitude |-> 800])),
        NewRow(3, [name |-> "Shop", address |-> "1 Main St", latitude |-> 0, longitude |-> 50001]))

(* GET /properties/get/nearby?location=q arrives (requests are numbered in *)
(* the order their lookups reach Redis): cached = await redis.get(key),    *)
(* and on a hit the rest of the request.  `up`: the Redis server is        *)
(* reachable for this command; otherwise the client raises.               *)
CacheGet(i, q, up) ==
    /\ reqs[i].pc = "idle"
    /\ IF i = 1 THEN TRUE ELSE reqs[i - 1].pc # "idle"
    /\ LET req == [reqs[i] EXCEPT !.query = q]
           key == Key(req.query)
       IN  IF ~up
           THEN reqs' = [reqs EXCEPT ![i] =
                            Unhandled([req EXCEPT !.cacheFailed = TRUE], "Cache error")]
           ELSE LET live == IF key \in DOMAIN cache /\ now < cache[key].expireAt
                            THEN cache[key].by ELSE 0
                    r1 == [req EXCEPT !.seen = live]
                IN  IF CacheHit(cache, key)
                    THEN LET pair == JsonLoads(cache[key].value) IN
                         \E props \in get_nearby_properties(properties, pair[1], pair[2],
                                                            DefaultRadiusKm) :
                            reqs' = [reqs EXCEPT ![i] = Respond(r1, pair, props)]
                    ELSE reqs' = [reqs EXCEPT ![i] = [r1 EXCEPT !.pc = "http"]]
    /\ UNCHANGED <<cache, now, provider, repoVars, queryVars>>

(* resp = await client.get(url, params={'q': query}, timeout=1.0) and the  *)
(* parsing of its body *)
HttpGet(i, reached) ==
    /\ reqs[i].pc = "http"
    /\ LET req == reqs[i]
           results == provider[req.query]
       IN  IF ~reached
           THEN reqs' = [reqs EXCEPT ![i] = NetworkError(req)]
           ELSE LET r1 == [req EXCEPT !.calls = @ + 1] IN
                IF ~Found(results)
                THEN reqs' = [reqs EXCEPT ![i] = LocationNotFound(r1)]
                ELSE LET first == FirstResult(results) IN
                     IF ~(IsNumber(first.lat) /\ IsNumber(first.lon))
                     THEN reqs' = [reqs EXCEPT ![i] = Unhandled(r1, "Bad result")]
                     ELSE reqs' = [reqs EXCEPT ![i] =
                            [r1 EXCEPT !.pc = "set",
                                       !.coords = <<Float(first.lat), Float(first.lon)>>]]
    /\ UNCHANGED <<cache, now, provider, repoVars, queryVars>>

(* await redis.set(key, json.dumps([lat, lon]), ex=86400), and the rest of *)
(* the request *)
CacheSet(i, up) ==
    /\ reqs[i].pc = "set"
    /\ LET req == reqs[i]
           key == Key(req.query)
       IN  IF ~up
           THEN /\ reqs' = [reqs EXCEPT ![i] =
                            Unhandled([req EXCEPT !.cacheFailed = TRUE], "Cache error")]
                /\ cache' = cache
           ELSE /\ cache' = [k \in DOMAIN cache \cup {key} |->
                                IF k = key
                                THEN [value |-> JsonDumps(req.coords),
                                      expireAt |-> now + TTL, by |-> i]
                                ELSE cache[k]]
                /\ \E props \in get_nearby_properties(properties, req.coords[1],
                                                      req.coords[2], DefaultRadiusKm) :
                      reqs' = [reqs EXCEPT ![i] =
                                 Respond([req EXCEPT !.wrote = TRUE], req.coords, props)]
    /\ UNCHANGED <<now, provider, repoVars, queryVars>>

(* Time passes; Redis drops the entries whose expiry has come *)
HalfDay == TTL \div 2

Tick ==
    /\ now < MaxTicks * HalfDay
    /\ now' = now + HalfDay
    /\ cache' = [k \in {j \in DOMAIN cache : cache[j].expireAt > now + HalfDay} |-> cache[k]]
    /\ UNCHANGED <<provider, reqs, repoVars, queryVars>>

(* Redis evicts or loses an entry *)
Evict(key) ==
    /\ key \in DOMAIN cache
    /\ cache' = [k \in DOMAIN cache \ {key} |-> cache[k]]
    /\ UNCHANGED <<now, provider, reqs, repoVars, queryVars>>

----------------------------------------------------------------------------
(* Specifications *)

NoQuery == [db |-> EmptyDb, lat |-> 0, lon |-> 0, radius_km |-> 0]
NoResult == [returned |-> FALSE, rows |-> <<>>]
NoProvider == [q \in Queries |-> EmptyList]

(* The repository: the table is empty after create_all *)
InitRepo ==
    /\ properties = EmptyDb
    /\ nextId = 1
    /\ call = NoCall
    /\ resp = NoResp
    /\ cache = <<>>
    /\ now = 0
    /\ provider = NoProvider
    /\ reqs = [i \in Requests |-> Idle]
    /\ qin = NoQuery
    /\ qout = NoResult

NextRepo ==
    \/ \E prop \in PropertyCreate : create_property(prop)
    \/ list_properties
    \/ \E id \in Ids : get_property(id)
    \/ \E id \in Ids, prop \in PropertyCreate : update_property(id, prop)
    \/ \E id \in Ids : delete_property(id)

SpecRepo == InitRepo /\ [][NextRepo]_vars

(* The spatial query on its own: a table, a point and a radius *)
QueryProps == {p \in PropertyCreate : p.name = "Home"}

Tables ==
    UNION {{[i \in 1..n |-> NewRow(i, f[i])] : f \in [1..n -> QueryProps]} : n \in 0..MaxRows}

Radii == {0, 1, DefaultRadiusKm}

InitQuery ==
    /\ qin \in [db : Tables, lat : Lats, lon : Lons, radius_km : Radii]
    /\ qout = NoResult
    /\ properties = EmptyDb
    /\ nextId = 1
    /\ call = NoCall
    /\ resp = NoResp
    /\ cache = <<>>
    /\ now = 0
    /\ provider = NoProvider
    /\ reqs = [i \in Requests |-> Idle]

RunQuery ==
    /\ ~qout.returned
    /\ \E rows \in get_nearby_properties(qin.db, qin.lat, qin.lon, qin.radius_km) :
          qout' = [returned |-> TRUE, rows |-> rows]
    /\ UNCHANGED <<qin, repoVars, cacheVars>>

NextQuery == RunQuery

SpecQuery == InitQuery /\ [][NextQuery]_vars

(* The nearby pipeline: concurrent requests, the cache, the provider *)
Init ==
    /\ properties = SampleStore
    /\ nextId = 4
    /\ call = NoCall
    /\ resp = NoResp
    /\ cache = <<>>
    /\ now = 0
    /\ provider \in Providers
    /\ reqs = [i \in Requests |-> Idle]
    /\ qin = NoQuery
    /\ qout = NoResult

Next ==
    \/ \E i \in Requests, q \in Queries, up \in BOOLEAN : CacheGet(i, q, up)
    \/ \E i \in Requests, reached \in BOOLEAN : HttpGet(i, reached)
    \/ \E i \in Requests, up \in BOOLEAN : CacheSet(i, up)
    \/ Tick
    \/ \E key \in DOMAIN cache : Evict(key)

Spec == Init /\ [][Next]_vars

----------------------------------------------------------------------------
(* Properties of the repository (SpecRepo) *)

(* C3: every stored row's location point is (longitude, latitude) of the   *)
(* same row, in SRID 4326, after any sequence of creates, updates and      *)
(* deletes; and a get right after a create returns the latitude and        *)
(* longitude that were supplied.                                           *)
C3_LocationConsistent ==
    /\ \A i \in DOMAIN properties :
          /\ properties[i].location.x = properties[i].longitude
          /\ properties[i].location.y = properties[i].latitude
          /\ properties[i].location.srid = 4326
    /\ call.op = "create" =>
          LET got == GetOutcome(properties, resp.body.id).resp IN
          /\ resp.status = 201
          /\ got.status = 200
          /\ got.body.latitude = call.body.latitude
          /\ got.body.longitude = call.body.longitude

(* A row was moved by an update to a place whose latitude and longitude differ *)
C3_Witness ==
    /\ call.op = "update"
    /\ resp.status = 200
    /\ call.id \in DOMAIN properties
    /\ properties[call.id].latitude = 600
    /\ properties[call.id].longitude = 800

(* C4: a get, update or delete of an id no stored row has answers 404      *)
(* 'Property not found' and leaves the table as it was.                     *)
C4_NotFound ==
    [][(call'.op \in {"get", "update", "delete"} /\ call'.id \notin DOMAIN properties)
         => /\ resp'.status = 404
            /\ resp'.body = [detail |-> "Property not found"]
            /\ properties' = properties]_vars

(* A delete of an id that was created and already deleted was answered 404 *)
C4_Witness ==
    /\ call.op = "delete"
    /\ call.id < nextId
    /\ call.id \notin DOMAIN properties
    /\ resp.status = 404
    /\ properties # EmptyDb

----------------------------------------------------------------------------
(* Properties of the spatial query (SpecQuery) *)

QueryPoint == ST_MakePoint(qin.lon, qin.lat)

Distance(i) == ST_DistanceSphere(qin.db[i].location, QueryPoint)

(* C5: the query always returns a list, and a row is in it (once) if and   *)
(* only if its sphere distance to the point is at most radius_km * 1000    *)
(* metres.                                                                 *)
C5_RadiusFilter ==
    /\ get_nearby_properties(qin.db, qin.lat, qin.lon, qin.radius_km) # {}
    /\ qout.returned =>
          /\ \A i \in DOMAIN qin.db :
                (\E k \in DOMAIN qout.rows : qout.rows[k].id = i)
                    <=> Distance(i) <= qin.radius_km * 1000
          /\ \A j, k \in DOMAIN qout.rows :
                qout.rows[j].id = qout.rows[k].id => j = k

(* A row exactly on the boundary was returned while another was left out *)
C5_Witness ==
    /\ qout.returned
    /\ qin.radius_km = 1
    /\ \E k \in DOMAIN qout.rows : Distance(qout.rows[k].id) = 1000
    /\ \E i \in DOMAIN qin.db : Distance(i) = 1004

(* C6: the returned list is in ascending order of the unrounded distance   *)
(* (a row strictly closer comes first, whatever the two round to), each    *)
(* distance_km is the distance rounded to 2 decimals, and the distance_km  *)
(* values are non-decreasing.                                              *)
C6_Ordered ==
    qout.returned =>
        /\ \A j, k \in DOMAIN qout.rows :
              Distance(qout.rows[j].id) < Distance(qout.rows[k].id) => j < k
        /\ \A k \in DOMAIN qout.rows :
              qout.rows[k].distance_km = Round2(Distance(qout.rows[k].id))
        /\ \A j, k \in DOMAIN qout.rows :
              j < k => qout.rows[j].distance_km <= qout.rows[k].distance_km

(* Two rows at different distances that round to the same distance_km *)
C6_Witness ==
    /\ qout.returned
    /\ \E j, k \in DOMAIN qout.rows :
          /\ Distance(qout.rows[j].id) < Distance(qout.rows[k].id)
          /\ qout.rows[j].distance_km = qout.rows[k].distance_km

----------------------------------------------------------------------------
(* Properties of the nearby pipeline (Spec) *)

(* The coordinates an uncached geocode_location(q) resolves q to *)
Resolved(q) ==
    LET first == provider[q].items[1] IN <<Float(first.lat), Float(first.lon)>>

Resolvable(q) ==
    /\ provider[q].kind = "list"
    /\ provider[q].items # <<>>
    /\ IsNumber(provider[q].items[1].lat)
    /\ IsNumber(provider[q].items[1].lon)

SameKey(i, j) == Lower(reqs[i].query) = Lower(reqs[j].query)

Started(i) == reqs[i].pc # "idle"

(* C1 as claimed: any two requests with the same lower-cased text within   *)
(* 24 hours of each other issue at most one external call in total.        *)
C1_AtMostOneCall ==
    now < TTL =>
        \A i, j \in Requests :
            (i # j /\ Started(i) /\ Started(j) /\ SameKey(i, j))
                => reqs[i].calls + reqs[j].calls <= 1

(* C1 as amended: a request issues at most one external call, and none     *)
(* when its lookup finds the unexpired entry an earlier request stored     *)
(* for the same lower-cased text: the two then issue one call in total.    *)
C1_HitIssuesNoCall ==
    \A i \in Requests :
        /\ reqs[i].calls <= 1
        /\ reqs[i].seen # 0 =>
              /\ reqs[i].seen # i
              /\ SameKey(i, reqs[i].seen)
              /\ reqs[i].calls = 0
              /\ reqs[i].calls + reqs[reqs[i].seen].calls = 1

(* Half a day after a request stored the entry, another was served from it *)
C1_Witness ==
    \E i \in Requests :
        /\ reqs[i].seen # 0
        /\ reqs[i].status = 200
        /\ now = HalfDay

(* C2: once the provider has answered a request with an empty list or with *)
(* something that is not a list, the request has failed with 400           *)
(* 'Location not found', has returned no properties, has run no spatial    *)
(* query and has written nothing to the cache.                             *)
C2_LocationNotFound ==
    \A i \in Requests :
        ( /\ reqs[i].calls >= 1
          /\ reqs[i].detail # "Upstream error"
          /\ provider[reqs[i].query].kind # "list" \/ provider[reqs[i].query].items = <<>> )
        => /\ reqs[i].pc = "done"
           /\ reqs[i].status = 400
           /\ reqs[i].detail = "Location not found"
           /\ reqs[i].body = <<>>
           /\ ~reqs[i].queried
           /\ ~reqs[i].wrote
           /\ \A k \in DOMAIN cache : cache[k].by # i

(* A request failed on an empty list while another request's entry stayed cached *)
C2_Witness ==
    \E i \in Requests :
        /\ reqs[i].status = 400
        /\ provider[reqs[i].query] = EmptyList
        /\ cache # <<>>

(* C7 as claimed: a request that succeeds returns the result of the        *)
(* coordinates the provider resolves its own text to, whether or not it    *)
(* was served from the cache.                                              *)
C7_CacheTransparent ==
    \A i \in Requests :
        reqs[i].status = 200 =>
            /\ Resolvable(reqs[i].query)
            /\ reqs[i].coords = Resolved(reqs[i].query)
            /\ reqs[i].body \in get_nearby_properties(properties, Resolved(reqs[i].query)[1],
                                   Resolved(reqs[i].query)[2], DefaultRadiusKm)

(* C8 as claimed: a request during which a cache command failed goes on as *)
(* on a miss: it asks the provider once and, when the provider resolves    *)
(* the text, answers 200 with the nearby properties.                       *)
C8_CacheFailureIsMiss ==
    \A i \in Requests :
        (reqs[i].cacheFailed /\ reqs[i].pc = "done") =>
            /\ reqs[i].calls = 1
            /\ (Resolvable(reqs[i].query) /\ reqs[i].detail # "Upstream error")
                  => (reqs[i].status = 200 /\ reqs[i].queried)

(* C9: no request calls the provider twice; a request whose call failed by *)
(* network error or timeout has made exactly one call, has ended in an     *)
(* error with no property list, has run no spatial query and has written   *)
(* nothing to the cache.                                                   *)
C9_UpstreamError ==
    \A i \in Requests :
        /\ reqs[i].calls <= 1
        /\ reqs[i].detail = "Upstream error" =>
              /\ reqs[i].pc = "done"
              /\ reqs[i].calls = 1
              /\ reqs[i].status = 500
              /\ reqs[i].body = <<>>
              /\ ~reqs[i].queried
              /\ ~reqs[i].wrote
              /\ \A k \in DOMAIN cache : cache[k].by # i

(* A request failed upstream while another request's entry stayed cached *)
C9_Witness ==
    \E i \in Requests :
        /\ reqs[i].detail = "Upstream error"
        /\ cache # <<>>

====
